---------------------------- MODULE Spec2Model ----------------------------
(***************************************************************************)
(* A model of the nvme-pel decoder (Persistent Event Log of an NVMe        *)
(* controller).  The decoder is a library of pure parsing functions over a *)
(* byte slice.  The state of the model holds the slice handed to a         *)
(* function, its scalar argument, the build profile, and what the function *)
(* returned; every action applies one function of the source, whole.       *)
(*                                                                         *)
(* Conventions                                                             *)
(*   - a byte slice &[u8] is a sequence of numbers in 0..255; offset k of  *)
(*     the source is index k + 1 of the sequence;                          *)
(*   - u8 and u16 values are numbers; u32, u64 and u128 values exceed the  *)
(*     model checker's integers and are numerals: the sequence of their    *)
(*     base-256 digits, most significant digit first;                      *)
(*   - an IResult is a record whose status is "Ok" (with the remaining     *)
(*     input rest and the value), "Err" (nom's Eof error) or "Panic" (the  *)
(*     thread unwinds: an arithmetic overflow check, todo!(), unwrap);     *)
(*   - arithmetic overflow panics when the build has overflow checks (the  *)
(*     debug profile) and wraps otherwise (the release profile).           *)
(***************************************************************************)
EXTENDS Integers, Sequences, FiniteSets, TLC

VARIABLES
    input,            \* the byte slice the function is called on
    arg,              \* the scalar argument of the call (a tag), else 0
    overflow_checks,  \* TRUE: the build panics on overflow; FALSE: it wraps
    stubs,            \* "todo": the todo!() bodies of the source;
                      \* "contract": payload decoders supplied as specified
    call,             \* the function that has returned, "none" before it
    ret               \* what it returned

vars == <<input, arg, overflow_checks, stubs, call, ret>>

----------------------------------------------------------------------------
(* Bytes, bits and slices *)

Byte == 0..255

Pow2(n) == 2 ^ n

\* bit k (0 = least significant) of the byte b
BitOf(b, k) == (b \div Pow2(k)) % 2

\* b & m for a mask m with a single bit set: non-zero iff that bit of b is set
AndNonZero(b, k) == BitOf(b, k) = 1

\* n copies of the byte b
Fill(n, b) == [i \in 1..n |-> b]

\* the slice s[from..from+n) of the source (offsets from 0)
Slice(s, from, n) == SubSeq(s, from + 1, from + n)

\* the slice s[n..]
Drop(s, n) == SubSeq(s, n + 1, Len(s))

Reverse(s) == [i \in 1..Len(s) |-> s[Len(s) + 1 - i]]

NoValue == [status |-> "None"]

ErrEof == [status |-> "Err"]

Panic == [status |-> "Panic"]

Ok(rest, value) == [status |-> "Ok", rest |-> rest, value |-> value]


\* a plain (non-IResult) return value
Returned(value) == [status |-> "Ok", value |-> value]

----------------------------------------------------------------------------
(* pel.rs: the event types and the supported-events bitmap *)

\* enum EventType: the discriminants 0x01..0x0d, 0xde, 0xdf
EventTypeTags == (1..13) \cup {222, 223}

\* the variants of enum EventType, in the order of their declaration
EventTypeVariants ==
    << "SmartHealth", "FwCommit", "TimestampChange", "Por", "NvmHwError",
       "ChangeNamespace", "FormatNvmStart", "FormatNvmComplete",
       "SanitizeStart", "SanitizeComplete", "SetFeature",
       "TelementryLogCreated", "ThermalExcursion", "VendorSpecifc",
       "TcgDefined" >>

\* the discriminant of the k-th variant: the one written for it (= 0x1,
\* = 0xde, = 0xdf), else one more than that of the variant before it
RECURSIVE DiscriminantAt(_)
DiscriminantAt(k) ==
    IF EventTypeVariants[k] = "SmartHealth" THEN 1
    ELSE IF EventTypeVariants[k] = "VendorSpecifc" THEN 222
    ELSE IF EventTypeVariants[k] = "TcgDefined" THEN 223
    ELSE DiscriminantAt(k - 1) + 1

\* `variant as u8`
EventType_as_u8(variant) ==
    DiscriminantAt(CHOOSE k \in 1..Len(EventTypeVariants) : EventTypeVariants[k] = variant)

\* Result<EventType, u8>
OkVariant(variant) == [ok |-> TRUE, variant |-> variant]

ErrValue(value) == [ok |-> FALSE, value |-> value]

\* mutant: the byte is taken for the position of the variant in the enum
EventType_try_from_position(value) ==
    IF value \in 1..Len(EventTypeVariants)
    THEN OkVariant(EventTypeVariants[value])
    ELSE ErrValue(value)

\* impl TryFrom<u8> for EventType: the arms of `match value`
EventType_try_from(value) ==
    CASE value = 1 -> OkVariant("SmartHealth")
      [] value = 2 -> OkVariant("FwCommit")
      [] value = 3 -> OkVariant("TimestampChange")
      [] value = 4 -> OkVariant("Por")
      [] value = 5 -> OkVariant("NvmHwError")
      [] value = 6 -> OkVariant("ChangeNamespace")
      [] value = 7 -> OkVariant("FormatNvmStart")
      [] value = 8 -> OkVariant("FormatNvmComplete")
      [] value = 9 -> OkVariant("SanitizeStart")
      [] value = 10 -> OkVariant("SanitizeComplete")
      [] value = 11 -> OkVariant("SetFeature")
      [] value = 12 -> OkVariant("TelementryLogCreated")
      [] value = 13 -> OkVariant("ThermalExcursion")
      [] value = 222 -> OkVariant("VendorSpecifc")
      [] value = 223 -> OkVariant("TcgDefined")
      [] OTHER -> ErrValue(value)

\* the index into self.0 that is_supported computes
byte_index(event_type) == event_type \div 32

\* the amount by which is_supported shifts the u8 mask 0x1
shift_amount(event_type) == event_type % 32

\* 0x1u8 << amount: an amount of 8 or more overflows the shift; the build
\* with overflow checks panics, the other masks the amount to three bits
shl_u8_one(amount, checks) ==
    IF amount < 8 THEN Returned(amount)
    ELSE IF checks THEN Panic
    ELSE Returned(amount % 8)

\* SuppEventsBitmap::is_supported(&self, event_type); bitmap is self.0
is_supported(bitmap, event_type, checks) ==
    LET mask == shl_u8_one(shift_amount(event_type), checks)
    IN  IF mask.status = "Panic" THEN Panic
        ELSE Returned(AndNonZero(bitmap[byte_index(event_type) + 1], mask.value))

\* a 32-byte bitmap with only bit (t mod 8) of byte (t div 8) set
OnlyBit(t) == [i \in 1..32 |-> IF i = (t \div 8) + 1 THEN Pow2(t % 8) ELSE 0]

Bitmaps == {Fill(32, 0), Fill(32, 255)} \cup {OnlyBit(t) : t \in EventTypeTags}

InitBitmap ==
    /\ input \in Bitmaps
    /\ arg \in EventTypeTags
    /\ overflow_checks \in BOOLEAN
    /\ stubs = "todo"
    /\ call = "none"
    /\ ret = NoValue

IsSupported ==
    /\ call = "none"
    /\ call' = "is_supported"
    /\ ret' = is_supported(input, arg, overflow_checks)
    /\ UNCHANGED <<input, arg, overflow_checks, stubs>>

NextBitmap == IsSupported

SpecBitmap == InitBitmap /\ [][NextBitmap]_vars

\* C2: is_supported(tag) is true exactly when bit (tag mod 8) of byte
\* (tag div 8) of the bitmap is set.
C2_BitOfByte ==
    call = "is_supported" =>
        /\ ret.status = "Ok"
        /\ ret.value = (BitOf(input[(arg \div 8) + 1], arg % 8) = 1)

\* C3: is_supported never panics: the byte index is within 0..31 and the
\* shift applied to the one-byte mask is within 0..7.
C3_NoPanic ==
    call = "is_supported" =>
        /\ ret.status # "Panic"
        /\ byte_index(arg) \in 0..31
        /\ shift_amount(arg) \in 0..7

----------------------------------------------------------------------------
(* nom's byte parsers, as the source uses them (complete input) *)

\* bytes::complete::take(n): the next n bytes, or Eof
take(n, i) == IF Len(i) < n THEN ErrEof ELSE Ok(Drop(i, n), Slice(i, 0, n))

\* number::complete::le_u8
le_u8(i) == IF Len(i) < 1 THEN ErrEof ELSE Ok(Drop(i, 1), i[1])

\* number::complete::le_u16
le_u16(i) == IF Len(i) < 2 THEN ErrEof ELSE Ok(Drop(i, 2), i[1] + 256 * i[2])

\* uN::from_le_bytes for the wide integers: the numeral of the value, its
\* most significant base-256 digit first
from_le_bytes(bytes) == Reverse(bytes)

\* number::complete::le_u32, le_u64, le_u128 (n = 4, 8, 16 bytes)
le_wide(n, i) ==
    IF Len(i) < n THEN ErrEof ELSE Ok(Drop(i, n), from_le_bytes(Slice(i, 0, n)))

le_u32(i) == le_wide(4, i)

le_u64(i) == le_wide(8, i)

le_u128(i) == le_wide(16, i)

\* `let (input, x) = p(input)?;` after an earlier step r: r's error returns
\* early, else p runs on the input r left
then_take(r, n) == IF r.status = "Ok" THEN take(n, r.rest) ELSE r

then_le_u8(r) == IF r.status = "Ok" THEN le_u8(r.rest) ELSE r

then_le_u16(r) == IF r.status = "Ok" THEN le_u16(r.rest) ELSE r

then_le_u32(r) == IF r.status = "Ok" THEN le_u32(r.rest) ELSE r

then_le_u64(r) == IF r.status = "Ok" THEN le_u64(r.rest) ELSE r

then_le_u128(r) == IF r.status = "Ok" THEN le_u128(r.rest) ELSE r

\* sequence::terminated(p, take(n)) once p has returned r: n more bytes are
\* consumed and dropped, p's value is kept
Terminated(r, n) ==
    IF r.status # "Ok" THEN r
    ELSE IF Len(r.rest) < n THEN ErrEof
    ELSE Ok(Drop(r.rest, n), r.value)

----------------------------------------------------------------------------
(* pel/mod.rs: the timestamp *)

\* impl From<u8> for TimestampOrigin
TimestampOrigin_from(value) ==
    IF value = 0 THEN <<"Reset">>
    ELSE IF value = 1 THEN <<"SetFeature">>
    ELSE <<"Unknown", value>>

\* impl From<u8> for TimestampSynch
TimestampSynch_from(value) ==
    IF value = 0 THEN <<"Continuous">>
    ELSE IF value = 1 THEN <<"Skipped">>
    ELSE <<"Unknown", value>>

\* long division of a numeral by a small divisor, digit by digit from the
\* most significant: <<quotient numeral, remainder>>
RECURSIVE DivMod(_, _, _, _)
DivMod(num, d, quot, rem) ==
    IF num = <<>> THEN <<quot, rem>>
    ELSE LET cur == rem * 256 + Head(num)
         IN  DivMod(Tail(num), d, Append(quot, cur \div d), cur % d)

\* Duration::from_millis(ms): whole seconds and the nanoseconds left over
Duration_from_millis(ms) ==
    LET qr == DivMod(ms, 1000, <<>>, 0)
    IN  [secs |-> qr[1], nanos |-> qr[2] * 1000000]

\* mutant: the two zero bytes are put before the six taken
ms_array_zero_first(ms) == <<0, 0>> \o ms

\* let ms = [ms[0], ms[1], ms[2], ms[3], ms[4], ms[5], 0, 0];
ms_array(ms) == <<ms[1], ms[2], ms[3], ms[4], ms[5], ms[6], 0, 0>>

\* parse_ms: six bytes, zero-extended to a u64, little-endian
parse_ms(i) ==
    LET r == take(6, i)
    IN  IF r.status # "Ok" THEN r
        ELSE Ok(r.rest, from_le_bytes(ms_array(r.value)))

\* mutant: the three origin bits are taken before the reserved four
attr_origin_first(a) == a \div 32

\* bits 07:04 are taken first and dropped, then the three bits 03:01
attr_origin(a) == (a % 16) \div 2

\* the last bit taken, bit 00
attr_synch(a) == a % 2

\* bits::bits(tuple((preceded(take(4), take(3)), take(1)))): one whole byte
\* is consumed, most significant bit first
parse_attributes(i) ==
    IF Len(i) < 1 THEN ErrEof
    ELSE Ok(Drop(i, 1), <<attr_origin(i[1]), attr_synch(i[1])>>)

then_parse_attributes(r) == IF r.status = "Ok" THEN parse_attributes(r.rest) ELSE r

\* parse_timestamp
parse_timestamp(i) ==
    LET r_ms == parse_ms(i)
        r_attr == then_parse_attributes(r_ms)
        r_rsvd == Terminated(r_attr, 1)
    IN  IF r_rsvd.status # "Ok" THEN r_rsvd
        ELSE Ok(r_rsvd.rest,
                [ms |-> Duration_from_millis(r_ms.value),
                 synch |-> TimestampSynch_from(r_attr.value[2]),
                 origin |-> TimestampOrigin_from(r_attr.value[1])])

then_parse_timestamp(r) == IF r.status = "Ok" THEN parse_timestamp(r.rest) ELSE r

\* the millisecond fields the timestamp inputs are built from
MsFields ==
    { <<0, 0, 0, 0, 0, 0>>, <<0, 17, 34, 51, 68, 85>>,
      <<0, 10, 11, 12, 13, 14>>, <<255, 255, 255, 255, 255, 255>> }

\* the most bytes that follow a record in an input
MaxTrailing == 2

\* what may follow a record: up to MaxTrailing bytes
Trailing == {[k \in 1..n |-> 15 + k] : n \in 0..MaxTrailing}

\* a whole timestamp (any attribute byte, a reserved byte, then anything),
\* or a truncated one
TimestampInputs ==
    { ms \o <<a, r>> \o t : ms \in MsFields, a \in Byte, r \in {0, 255}, t \in Trailing }
    \cup { SubSeq(<<0, 17, 34, 51, 68, 85, 3>>, 1, n) : n \in 0..7 }

InitTimestamp ==
    /\ input \in TimestampInputs
    /\ arg = 0
    /\ overflow_checks \in BOOLEAN
    /\ stubs = "todo"
    /\ call = "none"
    /\ ret = NoValue

ParseTimestamp ==
    /\ call = "none"
    /\ call' = "parse_timestamp"
    /\ ret' = parse_timestamp(input)
    /\ UNCHANGED <<input, arg, overflow_checks, stubs>>

ParseMs ==
    /\ call = "none"
    /\ call' = "parse_ms"
    /\ ret' = parse_ms(input)
    /\ UNCHANGED <<input, arg, overflow_checks, stubs>>

NextTimestamp == ParseTimestamp \/ ParseMs

SpecTimestamp == InitTimestamp /\ [][NextTimestamp]_vars

\* the base-256 digit of weight 256^j of a u64 numeral
DigitOfWeight(numeral, j) == numeral[8 - j]

\* C11: on six bytes b0..b5 or more, parse_ms returns the u64 whose base-256
\* digit of weight 256^j is bj for j < 6 and zero for j = 6, 7 (the value
\* b0 + b1*2^8 + .. + b5*2^40, below 2^48), and leaves the input after the
\* six bytes untouched.
C11_ParseMs ==
    (call = "parse_ms" /\ Len(input) >= 6) =>
        /\ ret.status = "Ok"
        /\ Len(ret.value) = 8
        /\ \A j \in 0..5 : DigitOfWeight(ret.value, j) = input[j + 1]
        /\ DigitOfWeight(ret.value, 6) = 0
        /\ DigitOfWeight(ret.value, 7) = 0
        /\ ret.rest = Drop(input, 6)

\* the bytes 00 0a 0b 0c 0d 0e of test_parse_ms, followed by more, were
\* decoded to 0x0e0d0c0b0a00
C11_Witness ==
    /\ call = "parse_ms"
    /\ Len(input) > 6
    /\ Slice(input, 0, 6) = <<0, 10, 11, 12, 13, 14>>
    /\ ret.status = "Ok"
    /\ ret.value = <<0, 0, 14, 13, 12, 11, 10, 0>>
    /\ ret.rest # <<>>

\* the input with bits 7:4 of the attribute byte and the reserved byte cleared
ClearReserved(i) ==
    [k \in 1..Len(i) |-> IF k = 7 THEN i[7] % 16 ELSE IF k = 8 THEN 0 ELSE i[k]]

\* the origin code read from bits 3:1 of the attribute byte
OriginCode(a) == BitOf(a, 1) + 2 * BitOf(a, 2) + 4 * BitOf(a, 3)

\* C10: on eight bytes or more parse_timestamp succeeds and consumes eight;
\* origin is decoded from bits 3:1 of the 7th byte and synch from its bit 0,
\* whatever its bits 7:4 and the 8th byte are.
C10_Timestamp ==
    (call = "parse_timestamp" /\ Len(input) >= 8) =>
        /\ ret.status = "Ok"
        /\ ret.rest = Drop(input, 8)
        /\ ret.value.origin =
            (CASE OriginCode(input[7]) = 0 -> <<"Reset">>
               [] OriginCode(input[7]) = 1 -> <<"SetFeature">>
               [] OTHER -> <<"Unknown", OriginCode(input[7])>>)
        /\ ret.value.synch =
            (IF BitOf(input[7], 0) = 0 THEN <<"Continuous">> ELSE <<"Skipped">>)
        /\ ret.value = parse_timestamp(ClearReserved(input)).value

\* an attribute byte with reserved bits set and an unknown origin code was
\* decoded, after a reserved byte that is not zero
C10_Witness ==
    /\ call = "parse_timestamp"
    /\ Len(input) > 8
    /\ input[7] = 245
    /\ input[8] = 255
    /\ ret.status = "Ok"
    /\ ret.value.origin = <<"Unknown", 2>>
    /\ ret.value.synch = <<"Skipped">>

----------------------------------------------------------------------------
(* pel/headers.rs: the event header *)

\* a + b in u8: past 255 the checked build panics, the other wraps
add_u8(a, b, checks) ==
    IF a + b <= 255 THEN Returned(a + b)
    ELSE IF checks THEN Panic
    ELSE Returned((a + b) % 256)

\* a + b in u16
add_u16(a, b, checks) ==
    IF a + b <= 65535 THEN Returned(a + b)
    ELSE IF checks THEN Panic
    ELSE Returned((a + b) % 65536)

\* a - b in u16: below zero the checked build panics, the other wraps
sub_u16(a, b, checks) ==
    IF a >= b THEN Returned(a - b)
    ELSE IF checks THEN Panic
    ELSE Returned((a - b) % 65536)

\* header_len + 3, the u8 field EventHeader::header_len
total_header_len(header_len, checks) == add_u8(header_len, 3, checks)

\* event_len + header_len as u16 + 3, the u16 field EventHeader::event_len
total_event_len(event_len, header_len, checks) ==
    LET sum == add_u16(event_len, header_len, checks)
    IN  IF sum.status = "Panic" THEN Panic ELSE add_u16(sum.value, 3, checks)

\* parse_event_header
parse_event_header(i, checks) ==
    LET r_type == le_u8(i)
        r_rev  == then_le_u8(r_type)
        r_ehl  == Terminated(then_le_u8(r_rev), 1)
        r_ctrl == then_le_u16(r_ehl)
        r_ts   == Terminated(then_parse_timestamp(r_ctrl), 6)
        r_vsil == then_le_u16(r_ts)
        r_el   == then_le_u16(r_vsil)
        hl     == total_header_len(r_ehl.value, checks)
        el     == total_event_len(r_el.value, r_ehl.value, checks)
    IN  IF r_el.status # "Ok" THEN r_el
        ELSE IF hl.status = "Panic" \/ el.status = "Panic" THEN Panic
        ELSE Ok(r_el.rest,
                [event_type |-> EventType_try_from(r_type.value),
                 event_rev |-> r_rev.value,
                 header_len |-> hl.value,
                 ctrl_id |-> r_ctrl.value,
                 timestamp |-> r_ts.value,
                 vendor_info_len |-> r_vsil.value,
                 event_len |-> el.value])

\* the header fields parse_event reads itself (pel/parser.rs), before it
\* calls parse_vendor_info: the raw values, nothing is added to them
parse_event_fields(i) ==
    LET r_type == le_u8(i)
        r_rev  == then_le_u8(r_type)
        r_ehl  == Terminated(then_le_u8(r_rev), 1)
        r_ctrl == then_le_u16(r_ehl)
        r_ts   == Terminated(then_parse_timestamp(r_ctrl), 6)
        r_vsil == then_le_u16(r_ts)
        r_el   == then_le_u16(r_vsil)
    IN  IF r_el.status # "Ok" THEN r_el
        ELSE Ok(r_el.rest,
                [event_type |-> r_type.value,
                 revision |-> r_rev.value,
                 header_len |-> r_ehl.value,
                 ctrl_id |-> r_ctrl.value,
                 timestamp |-> r_ts.value,
                 vendor_info_len |-> r_vsil.value,
                 event_len |-> r_el.value])

\* the two bytes of a u16 on the wire
U16Bytes(v) == <<v % 256, v \div 256>>

\* the 24 bytes of an event header with the given tag, EHL, VSIL and EL
EventHeaderBytes(tag, ehl, vsil, el) ==
    <<tag, 1, ehl, 170>> \o U16Bytes(258) \o <<0, 17, 34, 51, 68, 85, 3, 255>>
    \o Fill(6, 187) \o U16Bytes(vsil) \o U16Bytes(el)

\* the raw fields of the header an input starts with
RawTag(i) == i[1]

RawEHL(i) == i[3]

RawVSIL(i) == i[21] + 256 * i[22]

RawEL(i) == i[23] + 256 * i[24]

\* raw header lengths, among them the 10 of the example and those about 255
EHLValues == {0, 10, 21, 252, 253, 255}

\* raw event lengths, among them the 50 of the example and those about 65535
ELValues == {0, 5, 50, 65279, 65280, 65532, 65535}

VSILValues == {0, 2}

\* tags: known ones, the two high ones, and unknown ones
TagValues == {0, 1, 2, 3, 6, 14, 222, 223, 255}

EventHeaderInputs ==
    { EventHeaderBytes(tag, ehl, vsil, el) \o t :
        tag \in TagValues, ehl \in EHLValues, vsil \in VSILValues,
        el \in ELValues, t \in Trailing }
    \cup { SubSeq(EventHeaderBytes(tag, 10, 0, 50), 1, n) : tag \in TagValues, n \in 0..23 }

InitEventHeader ==
    /\ input \in EventHeaderInputs
    /\ arg = 0
    /\ overflow_checks \in BOOLEAN
    /\ stubs = "todo"
    /\ call = "none"
    /\ ret = NoValue

ParseEventHeader ==
    /\ call = "none"
    /\ call' = "parse_event_header"
    /\ ret' = parse_event_header(input, overflow_checks)
    /\ UNCHANGED <<input, arg, overflow_checks, stubs>>

ParseEventFields ==
    /\ call = "none"
    /\ call' = "parse_event: header fields"
    /\ ret' = parse_event_fields(input)
    /\ UNCHANGED <<input, arg, overflow_checks, stubs>>

NextEventHeader == ParseEventHeader \/ ParseEventFields

SpecEventHeader == InitEventHeader /\ [][NextEventHeader]_vars

\* C1: for every raw EHL and EL, parse_event_header returns header_len =
\* EHL + 3 and event_len = EL + EHL + 3, as integers: no wrap-around, no abort.
C1_LengthCorrection ==
    (call = "parse_event_header" /\ Len(input) >= 24) =>
        /\ ret.status = "Ok"
        /\ ret.value.header_len = RawEHL(input) + 3
        /\ ret.value.event_len = RawEL(input) + RawEHL(input) + 3

\* the two decodings of an event header
EventHeaderCalls == {"parse_event_header", "parse_event: header fields"}

\* C14: the event-header decoding succeeds on every input of 24 bytes or
\* more, whatever its tag byte, and consumes exactly 24 bytes; on every
\* shorter input it fails with a truncation error.
C14_HeaderStep ==
    call \in EventHeaderCalls =>
        IF Len(input) >= 24
        THEN /\ ret.status = "Ok"
             /\ ret.rest = Drop(input, 24)
        ELSE ret.status = "Err"

----------------------------------------------------------------------------
(* pel/parser.rs: one event record, and the dispatch on its tag *)

SMART_HEALTH == 1

FW_COMMIT == 2

TIMESTAMP_CHANGE == 2

POR == 3

NVM_HW_ERROR == 4

CHANGE_NAMESPACE == 5

FORMAT_NVM_START == 7

FORMAT_NVM_COMPLETE == 8

SANITIZE_START == 9

SANITIZE_COMPLETE == 10

SET_FEATURE == 11

TELEMENTRY_LOG_CREATED == 12

THERMAL_EXCURSION == 13

VENDOR_SPECIFC == 222

TCG_DEFINED == 223

\* the arms of `match event_type` in parse_event, in the order of the source:
\* the first arm whose constant equals the tag is taken, `_` when none is
decoder_of(event_type) ==
    IF event_type = SMART_HEALTH THEN "parse_smart_event"
    ELSE IF event_type = FW_COMMIT THEN "parse_fw_commit_event"
    ELSE IF event_type = TIMESTAMP_CHANGE THEN "parse_timestamp_change_event"
    ELSE IF event_type = POR THEN "parse_por_event"
    ELSE IF event_type = NVM_HW_ERROR THEN "parse_nvm_hw_error_event"
    ELSE IF event_type = CHANGE_NAMESPACE THEN "parse_change_namespace_event"
    ELSE IF event_type = FORMAT_NVM_START THEN "parse_format_nvm_start_event"
    ELSE IF event_type = FORMAT_NVM_COMPLETE THEN "parse_format_nvm_complete_event"
    ELSE IF event_type = SANITIZE_START THEN "parse_sanitize_start_event"
    ELSE IF event_type = SANITIZE_COMPLETE THEN "parse_sanitize_complete_event"
    ELSE IF event_type = SET_FEATURE THEN "parse_set_feature_event"
    ELSE IF event_type = TELEMENTRY_LOG_CREATED THEN "parse_telementry_log_created_event"
    ELSE IF event_type = THERMAL_EXCURSION THEN "parse_thermal_excursion_event"
    ELSE IF event_type = VENDOR_SPECIFC THEN "parse_vendor_specific_event"
    ELSE IF event_type = TCG_DEFINED THEN "parse_tcg_event"
    ELSE "parse_unknown_event"

\* the body every decoder that parse_event calls has in the source: todo!()
todo == Panic

\* parse_vendor_info once written: the VSIL bytes of vendor-specific
\* information, taken verbatim
vendor_info_contract(i, length) == take(length, i)

\* parse_unknown_event once written: the fallback captures the length bytes
\* it is handed, verbatim, as the Unknown variant
unknown_event_contract(i, length) ==
    LET r == take(length, i)
    IN  IF r.status # "Ok" THEN r
        ELSE Ok(r.rest, [variant |-> "Unknown", payload |-> r.value])

\* a per-type payload decoder once written: it fails (choice = -1) or
\* returns a value having consumed some number of bytes (choice) of its own
typed_event_contract(i, decoder, choice) ==
    IF choice < 0 \/ choice > Len(i) THEN ErrEof
    ELSE Ok(Drop(i, choice), [variant |-> decoder, payload |-> Slice(i, 0, choice)])

\* parse_vendor_info(input, event_type, revision, length)
parse_vendor_info(i, length, stub) ==
    IF stub = "todo" THEN todo ELSE vendor_info_contract(i, length)

\* the decoder the match arm calls, with (input, revision, length)
payload_decoder(decoder, i, length, stub, choice) ==
    IF stub = "todo" THEN todo
    ELSE IF decoder = "parse_unknown_event" THEN unknown_event_contract(i, length)
    ELSE typed_event_contract(i, decoder, choice)

\* let length = event_len - header_len as u16;
payload_length(event_len, header_len, checks) ==
    sub_u16(event_len, header_len, checks)

\* what parse_event returns, with the call it made to a payload decoder
EventResult(r, decoder, length) ==
    IF r.status = "Ok"
    THEN [status |-> "Ok", rest |-> r.rest, value |-> r.value,
          decoder |-> decoder, length |-> length]
    ELSE [status |-> r.status, decoder |-> decoder, length |-> length]

\* parse_event(input, headers_only); choice is what the payload decoder
\* does when it is a decoder written to the contract
parse_event(i, checks, stub, choice) ==
    LET r_type == le_u8(i)
        r_rev  == then_le_u8(r_type)
        r_ehl  == Terminated(then_le_u8(r_rev), 1)
        r_ctrl == then_le_u16(r_ehl)
        r_ts   == Terminated(then_parse_timestamp(r_ctrl), 6)
        r_vsil == then_le_u16(r_ts)
        r_el   == then_le_u16(r_vsil)
        r_info == parse_vendor_info(r_el.rest, r_vsil.value, stub)
        length == payload_length(r_el.value, r_ehl.value, checks)
        decoder == decoder_of(r_type.value)
        r_event == payload_decoder(decoder, r_info.rest, length.value, stub, choice)
    IN  IF r_el.status # "Ok" THEN EventResult(r_el, "none", 0)
        ELSE IF r_info.status # "Ok" THEN EventResult(r_info, "none", 0)
        ELSE IF length.status = "Panic" THEN EventResult(Panic, "none", 0)
        ELSE EventResult(r_event, decoder, length.value)

\* the bytes of a record after its 24-byte header, up to the declared end
\* EL + EHL + 3 of the record
RecordBody(ehl, el) ==
    [k \in 1..(IF el + ehl + 3 > 24 THEN el + ehl + 3 - 24 ELSE 0) |-> 100 + k]

\* header length fields of the event records: 21 (the header's 24 bytes) and 10
RecordEHLValues == {10, 21}

RecordELValues == {5, 21, 50}

\* whole records, each followed by the first bytes of the next, and records
\* cut short
EventInputs ==
    { EventHeaderBytes(tag, ehl, vsil, el) \o RecordBody(ehl, el) \o t :
        tag \in TagValues, ehl \in RecordEHLValues, vsil \in VSILValues,
        el \in RecordELValues, t \in Trailing }
    \cup { SubSeq(EventHeaderBytes(tag, 21, 2, 50) \o RecordBody(21, 50), 1, n) :
             tag \in {0, 3}, n \in {0, 23, 25, 40} }

InitEvent ==
    /\ input \in EventInputs
    /\ arg = 0
    /\ overflow_checks \in BOOLEAN
    /\ stubs \in {"todo", "contract"}
    /\ call = "none"
    /\ ret = NoValue

ParseEvent ==
    /\ call = "none"
    /\ call' = "parse_event"
    /\ \E choice \in (-1)..Len(input) :
          ret' = parse_event(input, overflow_checks, stubs, choice)
    /\ UNCHANGED <<input, arg, overflow_checks, stubs>>

NextEvent == ParseEvent

SpecEvent == InitEvent /\ [][NextEvent]_vars

\* the declared end of the record an input starts with: EL + EHL + 3
DeclaredEventLen(i) == RawEL(i) + RawEHL(i) + 3

\* the declared payload size: total_event_len - total_header_len - VSIL
DeclaredPayloadLen(i) == DeclaredEventLen(i) - (RawEHL(i) + 3) - RawVSIL(i)

\* the tags the dispatcher has an arm for
RegisteredTags ==
    { SMART_HEALTH, FW_COMMIT, TIMESTAMP_CHANGE, POR, NVM_HW_ERROR,
      CHANGE_NAMESPACE, FORMAT_NVM_START, FORMAT_NVM_COMPLETE, SANITIZE_START,
      SANITIZE_COMPLETE, SET_FEATURE, TELEMENTRY_LOG_CREATED, THERMAL_EXCURSION,
      VENDOR_SPECIFC, TCG_DEFINED }

\* C4: after parse_event has decoded a record, the remaining input starts
\* exactly EL + EHL + 3 bytes after the record's first byte, whatever the
\* payload decoder consumed.
C4_CursorAtDeclaredEnd ==
    (call = "parse_event" /\ ret.status = "Ok" /\ Len(input) >= DeclaredEventLen(input)) =>
        ret.rest = Drop(input, DeclaredEventLen(input))

\* C5: the length parse_event hands to the payload decoder is
\* total_event_len - total_header_len - VSIL, from the corrected totals.
C5_PayloadLength ==
    (call = "parse_event" /\ ret.decoder # "none") =>
        ret.length = DeclaredPayloadLen(input)

\* C6: a record with enough bytes whose tag has no registered decoder never
\* fails or aborts: it yields the Unknown variant with exactly the declared
\* number of payload bytes and leaves the cursor at the next record.
C6_UnknownFallback ==
    ( /\ call = "parse_event"
      /\ Len(input) >= 24
      /\ Len(input) >= DeclaredEventLen(input)
      /\ RawTag(input) \notin RegisteredTags ) =>
        /\ ret.status = "Ok"
        /\ ret.value.variant = "Unknown"
        /\ Len(ret.value.payload) = DeclaredPayloadLen(input)
        /\ ret.rest = Drop(input, DeclaredEventLen(input))

----------------------------------------------------------------------------
(* The text fields: String::from_utf8_lossy(s).trim().replace('\0', "") *)

\* U+FFFD REPLACEMENT CHARACTER
Replacement == 65533

IsCont(b) == b \in 128..191

\* the range the second byte of a sequence led by b1 must lie in
SecondRange(b1) ==
    IF b1 = 224 THEN 160..191
    ELSE IF b1 = 237 THEN 128..159
    ELSE IF b1 = 240 THEN 144..191
    ELSE IF b1 = 244 THEN 128..143
    ELSE 128..191

\* the bytes a sequence led by b1 has; 0 when b1 cannot lead one
SeqWidth(b1) ==
    IF b1 < 128 THEN 1
    ELSE IF b1 \in 194..223 THEN 2
    ELSE IF b1 \in 224..239 THEN 3
    ELSE IF b1 \in 240..244 THEN 4
    ELSE 0

\* the number of bytes at the head of s that form a valid prefix of a
\* sequence of width w (s is not empty, w >= 2)
ValidRun(s, w) ==
    IF Len(s) < 2 \/ s[2] \notin SecondRange(s[1]) THEN 1
    ELSE IF w = 2 THEN 2
    ELSE IF Len(s) < 3 \/ ~IsCont(s[3]) THEN 2
    ELSE IF w = 3 THEN 3
    ELSE IF Len(s) < 4 \/ ~IsCont(s[4]) THEN 3
    ELSE 4

\* the scalar value a whole sequence of width w encodes
Scalar(s, w) ==
    IF w = 1 THEN s[1]
    ELSE IF w = 2 THEN (s[1] % 32) * 64 + (s[2] % 64)
    ELSE IF w = 3 THEN (s[1] % 16) * 4096 + (s[2] % 64) * 64 + (s[3] % 64)
    ELSE (s[1] % 8) * 262144 + (s[2] % 64) * 4096 + (s[3] % 64) * 64 + (s[4] % 64)

\* the bytes of the chunk that starts at index k of s: a whole sequence, or
\* the maximal valid prefix of one, or one byte that cannot lead a sequence
ChunkLen(s, k) ==
    LET w == SeqWidth(s[k])
        t == SubSeq(s, k, IF k + 3 > Len(s) THEN Len(s) ELSE k + 3)
    IN  IF w <= 1 THEN 1 ELSE ValidRun(t, w)

\* the character of the chunk at k: its scalar value when the chunk is a
\* whole sequence, U+FFFD when it is not
ChunkChar(s, k) ==
    LET w == SeqWidth(s[k])
    IN  IF w >= 1 /\ ChunkLen(s, k) = w
        THEN Scalar(SubSeq(s, k, k + w - 1), w)
        ELSE Replacement

\* whether a chunk starts at index k when s is read from its first byte on.
\* Only continuation bytes follow the first byte of a chunk, and a chunk has
\* at most four bytes: a byte that is no continuation byte starts a chunk,
\* and a continuation byte starts one unless the chunk of the nearest
\* earlier byte that is no continuation byte reaches it.
IsChunkStart(s, k) ==
    LET leads == {q \in (IF k > 3 THEN k - 3 ELSE 1)..(k - 1) : ~IsCont(s[q])}
        q == CHOOSE x \in leads : \A y \in leads : y <= x
    IN  \/ ~IsCont(s[k])
        \/ leads = {}
        \/ k >= q + ChunkLen(s, q)

\* String::from_utf8_lossy: the characters of s, each maximal invalid run
\* replaced by one U+FFFD
from_utf8_lossy(s) ==
    LET starts == SelectSeq([k \in 1..Len(s) |-> k], LAMBDA k : IsChunkStart(s, k))
    IN  [j \in 1..Len(starts) |-> ChunkChar(s, starts[j])]

\* char::is_whitespace: the White_Space code points
is_whitespace(c) ==
    \/ c \in 9..13
    \/ c \in {32, 133, 160, 5760, 8232, 8233, 8239, 8287, 12288}
    \/ c \in 8192..8202

\* str::trim: from the first to the last character that is no white space
trim(str) ==
    LET keep == {k \in 1..Len(str) : ~is_whitespace(str[k])}
        first == CHOOSE k \in keep : \A j \in keep : k <= j
        last == CHOOSE k \in keep : \A j \in keep : j <= k
    IN  IF keep = {} THEN <<>> ELSE SubSeq(str, first, last)

\* str::replace(from, ""): every occurrence of the character removed
remove_char(str, from) == SelectSeq(str, LAMBDA c : c # from)

\* the closure clean_str of parse_log_header
clean_str(s) == remove_char(trim(from_utf8_lossy(s)), 0)

----------------------------------------------------------------------------
(* pel/parser.rs and pel/headers.rs: the log header *)

\* mutant: the reserved byte is consumed a second time
reserved_17_consumed(r) == Terminated(r, 1)

\* `let _ = take(1usize)(input)?;` after log_rev: a byte must remain, and
\* the input is not rebound, so nothing is consumed
reserved_17(r) ==
    IF r.status # "Ok" THEN r
    ELSE IF Len(r.rest) < 1 THEN ErrEof
    ELSE r

\* mutant: the 108 reserved bytes after the name are not skipped
name_field_unterminated(r) == then_take(r, 256)

\* terminated(take(256usize), take(108usize)): the name, then 479:372 reserved
name_field(r) == Terminated(then_take(r, 256), 108)

\* parser.rs: parse_log_header, which returns a Pel
parse_log_header(i) ==
    LET r_id    == take(4, i)
        r_num   == then_le_u32(r_id)
        r_len   == then_le_u64(r_num)
        r_rev   == reserved_17(Terminated(then_le_u8(r_len), 1))
        r_hlen  == then_le_u16(r_rev)
        r_ts    == then_parse_timestamp(r_hlen)
        r_poh   == then_le_u128(r_ts)
        r_pcc   == then_le_u64(r_poh)
        r_vid   == then_le_u16(r_pcc)
        r_ssvid == then_le_u16(r_vid)
        r_sn    == then_take(r_ssvid, 20)
        r_mn    == then_take(r_sn, 40)
        r_name  == name_field(r_mn)
        r_supp  == then_take(r_name, 32)
    IN  IF r_supp.status # "Ok" THEN r_supp
        ELSE Ok(r_supp.rest,
                [num_events |-> r_num.value,
                 len |-> r_len.value,
                 revision |-> r_rev.value,
                 header_len |-> r_hlen.value,
                 timestamp |-> r_ts.value,
                 power_on_hours |-> r_poh.value,
                 power_cycle_count |-> r_pcc.value,
                 vid |-> r_vid.value,
                 ssvid |-> r_ssvid.value,
                 serial_num |-> clean_str(r_sn.value),
                 model_num |-> clean_str(r_mn.value),
                 name |-> clean_str(r_name.value),
                 supp_events |-> r_supp.value,
                 events |-> <<"None">>,
                 generation |-> <<"None">>,
                 reporting_context |-> <<"None">>])

\* headers.rs: parse_log_header, which returns a LogHeader
headers_parse_log_header(i) ==
    LET r_id    == Terminated(le_u8(i), 3)
        r_num   == then_le_u32(r_id)
        r_len   == then_le_u64(r_num)
        r_rev   == Terminated(then_le_u8(r_len), 1)
        r_hlen  == then_le_u16(r_rev)
        r_ts    == then_parse_timestamp(r_hlen)
        r_poh   == then_le_u128(r_ts)
        r_pcc   == then_le_u64(r_poh)
        r_vid   == then_le_u16(r_pcc)
        r_ssvid == then_le_u16(r_vid)
        r_sn    == then_take(r_ssvid, 20)
        r_mn    == then_take(r_sn, 40)
        r_name  == name_field(r_mn)
        r_supp  == then_take(r_name, 32)
    IN  IF r_supp.status # "Ok" THEN r_supp
        ELSE Ok(r_supp.rest,
                [log_id |-> r_id.value,
                 num_events |-> r_num.value,
                 log_len |-> r_len.value,
                 log_rev |-> r_rev.value,
                 header_len |-> r_hlen.value,
                 timestamp |-> r_ts.value,
                 power_on_hours |-> r_poh.value,
                 power_cycle_count |-> r_pcc.value,
                 vid |-> r_vid.value,
                 ssvid |-> r_ssvid.value,
                 serial_num |-> clean_str(r_sn.value),
                 model_num |-> clean_str(r_mn.value),
                 name |-> clean_str(r_name.value),
                 supp_events |-> r_supp.value])

\* the size of the fixed region of the log header
HeaderSize == 512

\* two fillings of a buffer: zeros, and bytes that differ from their neighbours
ZeroPattern(n) == Fill(n, 0)

MixedPattern(n) == [k \in 1..n |-> ((k - 1) * 7 + 1) % 256]

\* the buffer s with the byte at offset o set to v
Poke(s, o, v) == [k \in 1..Len(s) |-> IF k = o + 1 THEN v ELSE s[k]]

\* the buffer s with the bytes from offset o on replaced by those of field
Place(s, o, field) ==
    [k \in 1..Len(s) |-> IF k - o \in 1..Len(field) THEN field[k - o] ELSE s[k]]

\* the first and last offset of every field and reserved run of the header
ProbeOffsets ==
    { 0, 1, 3, 4, 7, 8, 15, 16, 17, 18, 19, 20, 25, 26, 27, 28, 43, 44, 51,
      52, 53, 54, 55, 56, 75, 76, 115, 116, 371, 372, 479, 480, 511 }

\* lengths short of the header, each cutting it at another field
TruncatedLens == {0, 1, 4, 8, 17, 18, 19, 27, 56, 116, 372, 480, 511}

\* the offset and width of the three text fields
TextFields == { <<56, 20>>, <<76, 40>>, <<116, 256>> }

\* the bytes the text of a field is drawn from: NUL, space, 'A', and the two
\* bytes of U+00A0 (a white space), each of them invalid when alone
TextBytes == {0, 32, 65, 194, 160}

\* the longest text drawn for a field; the rest of the field is padding
MaxText == 2

Texts == UNION { [1..n -> TextBytes] : n \in 0..MaxText }

\* "ABC123", the serial number of the example
Abc123 == <<65, 66, 67, 49, 50, 51>>

LogHeaderInputs ==
    { SubSeq(MixedPattern(HeaderSize), 1, n) : n \in TruncatedLens }
    \cup { SubSeq(ZeroPattern(HeaderSize), 1, n) : n \in TruncatedLens }
    \cup { Poke(base, o, v) \o t :
             base \in {ZeroPattern(HeaderSize), MixedPattern(HeaderSize)},
             o \in ProbeOffsets, v \in {1, 255}, t \in Trailing }
    \cup { Place(ZeroPattern(HeaderSize), f[1], text \o Fill(f[2] - Len(text), pad)) :
             f \in TextFields, text \in Texts \cup {Abc123}, pad \in {0, 32} }

\* parse_log_header does no checked arithmetic and calls no stub: the build
\* and the stubs are left fixed
InitLogHeader ==
    /\ input \in LogHeaderInputs
    /\ arg = 0
    /\ overflow_checks = FALSE
    /\ stubs = "todo"
    /\ call = "none"
    /\ ret = NoValue

ParseLogHeader ==
    /\ call = "none"
    /\ call' = "parse_log_header"
    /\ ret' = parse_log_header(input)
    /\ UNCHANGED <<input, arg, overflow_checks, stubs>>

HeadersParseLogHeader ==
    /\ call = "none"
    /\ call' = "headers::parse_log_header"
    /\ ret' = headers_parse_log_header(input)
    /\ UNCHANGED <<input, arg, overflow_checks, stubs>>

NextLogHeader == ParseLogHeader \/ HeadersParseLogHeader

SpecLogHeader == InitLogHeader /\ [][NextLogHeader]_vars

LogHeaderCalls == {"parse_log_header", "headers::parse_log_header"}

\* C7: parse_log_header fails on every buffer shorter than 512 bytes and,
\* on every buffer of 512 bytes or more, succeeds and leaves exactly the
\* bytes from offset 512 on.
C7_Consumes512 ==
    call \in LogHeaderCalls =>
        IF Len(input) < 512
        THEN ret.status = "Err"
        ELSE ret.status = "Ok" /\ ret.rest = Drop(input, 512)

\* a header followed by more bytes was decoded, and those bytes are left
C7_Witness ==
    /\ call = "parse_log_header"
    /\ Len(input) = 514
    /\ ret.status = "Ok"
    /\ ret.rest = <<16, 17>>

\* the fields the two headers share, under the names of LogHeader (the Pel
\* of parser.rs calls log_len len and log_rev revision)
HeaderFields(fn, v) ==
    [num_events |-> v.num_events,
     log_len |-> IF fn = "parse_log_header" THEN v.len ELSE v.log_len,
     log_rev |-> IF fn = "parse_log_header" THEN v.revision ELSE v.log_rev,
     header_len |-> v.header_len,
     timestamp |-> v.timestamp,
     power_on_hours |-> v.power_on_hours,
     power_cycle_count |-> v.power_cycle_count,
     vid |-> v.vid,
     ssvid |-> v.ssvid,
     serial_num |-> v.serial_num,
     model_num |-> v.model_num,
     name |-> v.name,
     supp_events |-> v.supp_events]

\* the header that the function fn reads from the buffer i
HeaderOf(fn, i) ==
    IF fn = "parse_log_header" THEN parse_log_header(i) ELSE headers_parse_log_header(i)

\* the offsets of the reserved bytes of the header
ReservedOffsets == (1..3) \cup {17} \cup (372..479)

\* the buffer with every reserved byte cleared
ClearHeaderReserved(i) ==
    [k \in 1..Len(i) |-> IF k - 1 \in ReservedOffsets THEN 0 ELSE i[k]]

\* the numeral of the little-endian integer in the n bytes from offset o on:
\* its most significant digit is the byte at offset o + n - 1
NumeralAt(i, o, n) == [k \in 1..n |-> i[o + n + 1 - k]]

IsTrimmedText(str) ==
    /\ \A k \in 1..Len(str) : str[k] # 0
    /\ str # <<>> => (~is_whitespace(str[1]) /\ ~is_whitespace(str[Len(str)]))

\* C9: every text field of the log header decodes to a string with no NUL
\* character and no leading or trailing white space.
C9_TextTrimmed ==
    (call \in LogHeaderCalls /\ ret.status = "Ok") =>
        /\ IsTrimmedText(ret.value.serial_num)
        /\ IsTrimmedText(ret.value.model_num)
        /\ IsTrimmedText(ret.value.name)

----------------------------------------------------------------------------
(* pel/mod.rs: the whole log *)

\* parse_pel: its body is todo!()
parse_pel(i) == todo

\* the most event records that follow the log header in an input
MaxEvents == 2

\* one whole event record of 29 bytes: its header, then its EL = 5 bytes
OneRecord(tag) == EventHeaderBytes(tag, 21, 0, 5) \o RecordBody(21, 5)

\* n copies of a record, one after the other
Records(n, tag) ==
    [k \in 1..(n * Len(OneRecord(tag))) |->
        OneRecord(tag)[((k - 1) % Len(OneRecord(tag))) + 1]]

\* a log header whose num_events field (bytes 07:04) says n
LogHeaderBytes(base, n) == Place(base, 4, <<n, 0, 0, 0>>)

\* whole logs (a header announcing n records, the n records, then anything)
\* and logs cut short in the header or in the last record
PelInputs ==
    { LogHeaderBytes(base, n) \o Records(n, tag) \o t :
        base \in {ZeroPattern(HeaderSize), MixedPattern(HeaderSize)},
        n \in 0..MaxEvents, tag \in TagValues, t \in Trailing }
    \cup { SubSeq(LogHeaderBytes(ZeroPattern(HeaderSize), 1) \o Records(1, tag), 1, n) :
             tag \in TagValues, n \in {0, 511, 512, 535, 540} }

InitPel ==
    /\ input \in PelInputs
    /\ arg = 0
    /\ overflow_checks \in BOOLEAN
    /\ stubs = "todo"
    /\ call = "none"
    /\ ret = NoValue

ParsePel ==
    /\ call = "none"
    /\ call' = "parse_pel"
    /\ ret' = parse_pel(input)
    /\ UNCHANGED <<input, arg, overflow_checks, stubs>>

NextPel == ParsePel

SpecPel == InitPel /\ [][NextPel]_vars

\* the num_events field of the header an input starts with, when below 256
RawNumEvents(i) ==
    IF i[6] = 0 /\ i[7] = 0 /\ i[8] = 0 THEN i[5] ELSE 256

\* C12: whenever parse_pel succeeds the log it returns holds exactly
\* num_events events, and on a buffer of exactly 512 bytes whose num_events
\* field is 0 it succeeds with an empty event sequence.
C12_ParsePel ==
    call = "parse_pel" =>
        /\ ret.status = "Ok" => Len(ret.value.events) = RawNumEvents(input)
        /\ (Len(input) = HeaderSize /\ RawNumEvents(input) = 0) =>
              /\ ret.status = "Ok"
              /\ ret.value.events = <<>>

----------------------------------------------------------------------------
(* The event type of a tag byte: EventType::try_from of pel.rs, and the
   `match event_type` of parse_event in pel/parser.rs *)

InitEventType ==
    /\ input = <<>>
    /\ arg \in Byte
    /\ overflow_checks \in BOOLEAN
    /\ stubs = "todo"
    /\ call = "none"
    /\ ret = NoValue

TryFrom ==
    /\ call = "none"
    /\ call' = "try_from"
    /\ ret' = Returned(EventType_try_from(arg))
    /\ UNCHANGED <<input, arg, overflow_checks, stubs>>

\* the arm that `match event_type` takes for the tag
MatchEventType ==
    /\ call = "none"
    /\ call' = "match event_type"
    /\ ret' = Returned(decoder_of(arg))
    /\ UNCHANGED <<input, arg, overflow_checks, stubs>>

NextEventType == TryFrom \/ MatchEventType

SpecEventType == InitEventType /\ [][NextEventType]_vars

\* C13: over all 256 bytes EventType::try_from returns a value: Ok(v) with
\* `v as u8` equal to the byte for the 15 bytes 0x01..0x0d, 0xde, 0xdf (and
\* for no other), Err(b) with the byte b unchanged for the other 241.
C13_TryFromTotal ==
    call = "try_from" =>
        /\ ret.status = "Ok"
        /\ IF arg \in (1..13) \cup {222, 223}
           THEN /\ ret.value.ok
                /\ \E k \in 1..15 : ret.value.variant = EventTypeVariants[k]
                /\ EventType_as_u8(ret.value.variant) = arg
           ELSE /\ ~ret.value.ok
                /\ ret.value.value = arg
        /\ Cardinality({b \in Byte : EventType_try_from(b).ok}) = 15

\* the byte 0xde was converted to VendorSpecifc, whose discriminant it is
C13_Witness ==
    /\ call = "try_from"
    /\ arg = 222
    /\ ret.value = OkVariant("VendorSpecifc")
    /\ EventType_as_u8("VendorSpecifc") = 222

\* the payload decoder that belongs to each event type
DecoderOfVariant(variant) ==
    CASE variant = "SmartHealth" -> "parse_smart_event"
      [] variant = "FwCommit" -> "parse_fw_commit_event"
      [] variant = "TimestampChange" -> "parse_timestamp_change_event"
      [] variant = "Por" -> "parse_por_event"
      [] variant = "NvmHwError" -> "parse_nvm_hw_error_event"
      [] variant = "ChangeNamespace" -> "parse_change_namespace_event"
      [] variant = "FormatNvmStart" -> "parse_format_nvm_start_event"
      [] variant = "FormatNvmComplete" -> "parse_format_nvm_complete_event"
      [] variant = "SanitizeStart" -> "parse_sanitize_start_event"
      [] variant = "SanitizeComplete" -> "parse_sanitize_complete_event"
      [] variant = "SetFeature" -> "parse_set_feature_event"
      [] variant = "TelementryLogCreated" -> "parse_telementry_log_created_event"
      [] variant = "ThermalExcursion" -> "parse_thermal_excursion_event"
      [] variant = "VendorSpecifc" -> "parse_vendor_specific_event"
      [] variant = "TcgDefined" -> "parse_tcg_event"

\* the decoder of the event type that EventType::try_from names for a tag,
\* the fallback when it names none
DecoderOfTag(tag) ==
    IF EventType_try_from(tag).ok
    THEN DecoderOfVariant(EventType_try_from(tag).variant)
    ELSE "parse_unknown_event"

\* C15: the 15 tag constants of the dispatcher are pairwise distinct, and for
\* every tag byte `match event_type` takes the arm of the decoder of the
\* event type that EventType::try_from names for that byte: no known tag
\* falls through to parse_unknown_event.
C15_DispatchAgrees ==
    call = "match event_type" =>
        /\ Cardinality(RegisteredTags) = 15
        /\ ret.value = DecoderOfTag(arg)

============================================================================
